---- MODULE Spec2Model ----
(***************************************************************************)
(* Wallet session orchestration of sado-connect / ord-connect:             *)
(*   - SelectWalletModal (src/unnamed/part_000): onError,                  *)
(*     onConnectUnisatWallet, onConnectXverseWallet, the reconnect-on-load *)
(*     effect;                                                             *)
(*   - useSignMessage (src/packages/ord-connect/src/hooks/                 *)
(*     useSignMessage.tsx): signMsg.                                       *)
(* The provider (useOrdConnect / useOrdContext) is not part of the         *)
(* sources at hand; its setters and disconnectWallet follow spec.md.       *)
(*                                                                         *)
(* JavaScript is single threaded: a handler runs without interruption from *)
(* its start to its first await, and from the await's completion to its    *)
(* return.  Each such stretch is one action.                               *)
(***************************************************************************)
EXTENDS Naturals, Sequences, FiniteSets

\* Bound on the number of connect invocations in one run.
MaxCalls == 3
\* Bound on the number of signMsg invocations in one run.
MaxSigns == 2

VARIABLES
  store,               \* Identity Store: wallet kind and the six identity fields
  errorMessage,        \* SelectWalletModal's errorMessage state
  listeners,           \* closures registered for window.unisat "accountsChanged"
  calls,               \* connect invocations, in order of their start, each with
                       \* its position (await: adapter call in flight; done)
  last,                \* the connect invocation that returned last: what its adapter
                       \* call settled with, what it returned, and the store's state
                       \* (identity, listener, wallet kind) right before it resumed
  loadPc,              \* position of the reconnect-on-load effect
  lastEventCallbacks,  \* callbacks run by the last accountsChanged event
  afterDisconnect,     \* "disconnected" since the explicit disconnect of a connected
                       \* Unisat session (identity stored, listener armed, no connect
                       \* of the user's or of the page load under way), "event" once
                       \* an accountsChanged event followed; "no" from the user's
                       \* next connect on
  signs,               \* signMsg invocations, in order of their start
  isLoading,           \* useSignMessage's isLoading state
  error,               \* useSignMessage's error state
  signLast             \* the signMsg invocation that settled last

vars == <<store, errorMessage, listeners, calls, last, loadPc,
          lastEventCallbacks, afterDisconnect, signs, isLoading, error, signLast>>

connectVars == <<store, errorMessage, listeners, calls, last, loadPc,
                 lastEventCallbacks, afterDisconnect>>

signVars == <<signs, isLoading, error, signLast>>

(***************************************************************************)
(* Data                                                                    *)
(***************************************************************************)

UNISAT == "unisat"
XVERSE == "xverse"

\* The empty identity: no wallet kind, and null address, public key, format.
EmptyIdentity ==
  [wallet |-> "none",
   paymentAddress |-> "", ordinalAddress |-> "",
   paymentPublicKey |-> "", ordinalPublicKey |-> "",
   paymentFormat |-> "", ordinalFormat |-> ""]

\* Entries a wallet extension returns: {address, publicKey, format}.
U1 == [address |-> "b1", publicKey |-> "pk1", format |-> "segwit"]
U2 == [address |-> "b2", publicKey |-> "pk2", format |-> "taproot"]
P1 == [address |-> "a1", publicKey |-> "xpk1", format |-> "p2sh-p2wpkh"]
P2 == [address |-> "a2", publicKey |-> "xpk2", format |-> "p2sh-p2wpkh"]
T1 == [address |-> "t1", publicKey |-> "xpk3", format |-> "taproot"]
S1 == [address |-> "s1", publicKey |-> "xpk4", format |-> "segwit"]

UnisatLists == {<< >>, <<U1>>, <<U2, U1>>}
XverseLists == {<< >>, <<P1>>, <<T1>>, <<S1>>, <<T1, P1>>, <<S1, P2, T1, P1>>}

NoError == [name |-> "", message |-> ""]
ErrNotInstalled ==
  [name |-> "BrowserWalletNotInstalledError", message |-> "wallet not installed"]
ErrCancelled ==
  [name |-> "BrowserWalletRequestCancelledByUserError", message |-> "request cancelled"]
ErrUnisatEmpty ==
  [name |-> "Error", message |-> "Unisat via Ordit returned no addresses."]
ErrXverseEmpty ==
  [name |-> "Error", message |-> "Xverse via Ordit returned no addresses."]
ErrXverseIncomplete ==
  [name |-> "Error",
   message |-> "Xverse via Ordit did not return P2SH or Taproot addresses."]
ErrAddListener ==
  [name |-> "TypeError", message |-> "addListener failed"]

AdapterErrors == {ErrNotInstalled, ErrCancelled}

\* What an adapter address-retrieval call can settle with.
Thrown(e) == [kind |-> "throw", err |-> e, list |-> << >>]
Null == [kind |-> "null", err |-> NoError, list |-> << >>]
Returned(l) == [kind |-> "list", err |-> NoError, list |-> l]

UnisatOutcomes ==
  {Thrown(e) : e \in AdapterErrors} \cup {Null} \cup {Returned(l) : l \in UnisatLists}
XverseOutcomes ==
  {Thrown(e) : e \in AdapterErrors} \cup {Null} \cup {Returned(l) : l \in XverseLists}

(***************************************************************************)
(* Provider (useOrdConnect): setters and disconnectWallet, on the world    *)
(* w = [store, errorMessage, listeners, opened] a handler acts on.         *)
(***************************************************************************)

updateAddress(w, ordinals, payments) ==
  [w EXCEPT !.store.ordinalAddress = ordinals, !.store.paymentAddress = payments]

updatePublicKey(w, ordinals, payments) ==
  [w EXCEPT !.store.ordinalPublicKey = ordinals, !.store.paymentPublicKey = payments]

updateWallet(w, kind) == [w EXCEPT !.store.wallet = kind]

updateFormat(w, ordinals, payments) ==
  [w EXCEPT !.store.ordinalFormat = ordinals, !.store.paymentFormat = payments]

\* A disconnectWallet that forgets the wallet kind and leaves the fields.
disconnectWalletKeepsFields(w) ==
  [w EXCEPT !.store.wallet = "none", !.listeners = {}]

\* spec.md 4.2: deregisters the active listener (if any), clears the store.
disconnectWallet(w) == [w EXCEPT !.store = EmptyIdentity, !.listeners = {}]

(***************************************************************************)
(* SelectWalletModal                                                       *)
(***************************************************************************)

setErrorMessage(w, m) == [w EXCEPT !.errorMessage = m]

\* window.unisat.removeListener: removes the closure given, if registered.
removeListener(w, listener) == [w EXCEPT !.listeners = @ \ {listener}]

\* window.unisat.addListener
addListener(w, listener) == [w EXCEPT !.listeners = @ \cup {listener}]

\* An onError that records the message and does not disconnect.
onErrorNoDisconnect(w, walletProvider, err) ==
  setErrorMessage(w, err.message)

onError(w, walletProvider, err) ==
  LET w1 == IF err.name = "BrowserWalletNotInstalledError"
            THEN [w EXCEPT !.opened = @ \cup {walletProvider}]
            ELSE w
      w2 == setErrorMessage(w1, err.message)
  IN  disconnectWallet(w2)

\* onConnectUnisatWallet, lines 74-85: from the call to the adapter call.
\* `listener` is the closure this invocation creates (line 74).
UnisatBegin(w, listener) ==
  setErrorMessage(removeListener(w, listener), "")

\* Lines 92-106 with the last returned entry in place of the first.
UnisatWriteLast(w, unisat) ==
  LET unisatWallet == unisat[Len(unisat)]
      w1 == updateAddress(w, unisatWallet.address, unisatWallet.address)
      w2 == updatePublicKey(w1, unisatWallet.publicKey, unisatWallet.publicKey)
      w3 == updateWallet(w2, UNISAT)
  IN  updateFormat(w3, unisatWallet.format, unisatWallet.format)

\* Lines 92-106 without the updateFormat call.
UnisatWriteNoFormat(w, unisat) ==
  LET unisatWallet == unisat[1]
      w1 == updateAddress(w, unisatWallet.address, unisatWallet.address)
      w2 == updatePublicKey(w1, unisatWallet.publicKey, unisatWallet.publicKey)
  IN  updateWallet(w2, UNISAT)

\* onConnectUnisatWallet, lines 92-106: the identity written from a response.
UnisatWrite(w, unisat) ==
  LET unisatWallet == unisat[1]
      w1 == updateAddress(w, unisatWallet.address, unisatWallet.address)
      w2 == updatePublicKey(w1, unisatWallet.publicKey, unisatWallet.publicKey)
      w3 == updateWallet(w2, UNISAT)
  IN  updateFormat(w3, unisatWallet.format, unisatWallet.format)

\* onConnectUnisatWallet, lines 85-114: from the adapter call's completion to
\* the return.  addThrows: window.unisat.addListener throws.
UnisatResume(w, listener, unisat, addThrows) ==
  IF unisat.kind = "throw"
  THEN [w |-> onError(w, UNISAT, unisat.err), result |-> FALSE, wrote |-> FALSE]
  ELSE IF unisat.kind = "null" \/ Len(unisat.list) < 1
  THEN [w |-> onError(disconnectWallet(w), UNISAT, ErrUnisatEmpty),
        result |-> FALSE, wrote |-> FALSE]
  ELSE LET w4 == UnisatWrite(w, unisat.list)
       IN  IF addThrows
           THEN [w |-> onError(w4, UNISAT, ErrAddListener),
                 result |-> FALSE, wrote |-> TRUE]
           ELSE [w |-> addListener(w4, listener), result |-> TRUE, wrote |-> TRUE]

\* Array.prototype.find on the format: the first entry of that format, or
\* NoEntry (undefined).
NoEntry == [address |-> "", publicKey |-> "", format |-> ""]

find(xverse, format) ==
  LET hits == {i \in 1..Len(xverse) : xverse[i].format = format}
  IN  IF hits = {} THEN NoEntry
      ELSE xverse[CHOOSE i \in hits : \A j \in hits : i <= j]

\* onConnectXverseWallet, lines 116-119.
XverseBegin(w) == setErrorMessage(w, "")

\* Lines 134-138 requiring the p2sh entry only.
XverseCompleteP2shOnly(p2sh, taproot) == p2sh # NoEntry

\* onConnectXverseWallet, lines 134-138: both formats were found.
XverseComplete(p2sh, taproot) == ~(p2sh = NoEntry \/ taproot = NoEntry)

\* Lines 140-152 without the updateWallet call.
XverseWriteNoWallet(w, p2sh, taproot) ==
  LET w1 == updateAddress(w, taproot.address, p2sh.address)
      w2 == updatePublicKey(w1, taproot.publicKey, p2sh.publicKey)
  IN  updateFormat(w2, taproot.format, p2sh.format)

\* onConnectXverseWallet, lines 140-152.
XverseWrite(w, p2sh, taproot) ==
  LET w1 == updateAddress(w, taproot.address, p2sh.address)
      w2 == updatePublicKey(w1, taproot.publicKey, p2sh.publicKey)
      w3 == updateWallet(w2, XVERSE)
  IN  updateFormat(w3, taproot.format, p2sh.format)

\* onConnectXverseWallet, lines 119-158.
XverseResume(w, xverse) ==
  IF xverse.kind = "throw"
  THEN [w |-> onError(w, XVERSE, xverse.err), result |-> FALSE, wrote |-> FALSE]
  ELSE IF xverse.kind = "null" \/ Len(xverse.list) < 1
  THEN [w |-> onError(disconnectWallet(w), XVERSE, ErrXverseEmpty),
        result |-> FALSE, wrote |-> FALSE]
  ELSE LET p2sh == find(xverse.list, "p2sh-p2wpkh")
           taproot == find(xverse.list, "taproot")
       IN  IF ~XverseComplete(p2sh, taproot)
           THEN [w |-> onError(w, XVERSE, ErrXverseIncomplete),
                 result |-> FALSE, wrote |-> FALSE]
           ELSE [w |-> XverseWrite(w, p2sh, taproot),
                 result |-> TRUE, wrote |-> TRUE]

\* An effect without the guard of line 163.
ShouldReconnectAlways(s) == TRUE

\* The effect's guard, line 163.
ShouldReconnectOnLoad(s) ==
  /\ s.wallet = UNISAT
  /\ s.ordinalAddress # "" /\ s.paymentAddress # ""
  /\ s.ordinalPublicKey # "" /\ s.paymentPublicKey # ""
  /\ s.ordinalFormat # "" /\ s.paymentFormat # ""

\* Lines 166-169 routed through onError.
LoadNotReadyViaOnError(w) ==
  onError(w, UNISAT, [name |-> "Error", message |-> "extension not ready"])

\* connectToUnisatWalletOnLoad, lines 166-169: the wait reported not ready.
LoadNotReadyBody(w) == disconnectWallet(w)

(***************************************************************************)
(* State machine of the connect flows                                      *)
(***************************************************************************)

IsEmpty(s) == s = EmptyIdentity

\* The identity a completed connect leaves in the store.
IdentityOf(kind, payment, ordinal) ==
  [wallet |-> kind,
   paymentAddress |-> payment.address, ordinalAddress |-> ordinal.address,
   paymentPublicKey |-> payment.publicKey, ordinalPublicKey |-> ordinal.publicKey,
   paymentFormat |-> payment.format, ordinalFormat |-> ordinal.format]

\* What the durable storage can hold when the page loads: nothing, or the
\* identity of an earlier session.
PersistedStores ==
  {EmptyIdentity, IdentityOf(UNISAT, U1, U1), IdentityOf(XVERSE, P1, T1)}

NoLast ==
  [id |-> 0, kind |-> "none", readOnly |-> FALSE, origin |-> "none",
   outcome |-> Null, addThrows |-> FALSE, result |-> FALSE, wrote |-> FALSE,
   opened |-> {}, hadIdentity |-> FALSE, hadListener |-> FALSE,
   prior |-> "none"]

NoSignLast ==
  [id |-> 0, status |-> "none", value |-> "", hadIdentity |-> FALSE,
   extensionCall |-> FALSE, cause |-> NoError]

\* The world a handler starts on.
World ==
  [store |-> store, errorMessage |-> errorMessage, listeners |-> listeners,
   opened |-> {}]

Commit(w) ==
  /\ store' = w.store
  /\ errorMessage' = w.errorMessage
  /\ listeners' = w.listeners

InFlight == {i \in 1..Len(calls) : calls[i].pc = "await"}

\* A connect invocation that has returned; what was noted about its adapter
\* call's time in flight is dropped.
Finished(call) ==
  [call EXCEPT !.pc = "done", !.walletAtStart = "none", !.disconnected = FALSE]

\* A connect invocation at its adapter call.  walletAtStart: the stored wallet
\* kind when it started; disconnected: the consumer has called
\* disconnectWallet() since.
NewCall(kind, readOnly, origin) ==
  [kind |-> kind, readOnly |-> readOnly, origin |-> origin, pc |-> "await",
   walletAtStart |-> store.wallet, disconnected |-> FALSE]

Init ==
  /\ store \in PersistedStores
  /\ errorMessage = ""
  /\ listeners = {}
  /\ calls = << >>
  /\ last = NoLast
  /\ loadPc = "mount"
  /\ lastEventCallbacks = 0
  /\ afterDisconnect = "no"
  /\ signs = << >>
  /\ isLoading = FALSE
  /\ error = ""
  /\ signLast = NoSignLast

\* useEffect, lines 162-174: runs once after the first render.
Mount ==
  /\ loadPc = "mount"
  /\ loadPc' = IF ShouldReconnectOnLoad(store) THEN "waiting" ELSE "skipped"
  /\ UNCHANGED <<store, errorMessage, listeners, calls, last,
                 lastEventCallbacks, afterDisconnect>>
  /\ UNCHANGED signVars

\* connectToUnisatWalletOnLoad: waitForUnisatExtensionReady resolved true.
LoadReady ==
  /\ loadPc = "waiting"
  /\ Len(calls) < MaxCalls
  /\ Commit(UnisatBegin(World, Len(calls) + 1))
  /\ calls' = Append(calls, NewCall(UNISAT, TRUE, "load"))
  /\ loadPc' = "ready"
  /\ UNCHANGED <<last, lastEventCallbacks, afterDisconnect>>
  /\ UNCHANGED signVars

\* connectToUnisatWalletOnLoad: waitForUnisatExtensionReady resolved false.
LoadNotReady ==
  /\ loadPc = "waiting"
  /\ Commit(LoadNotReadyBody(World))
  /\ loadPc' = "notready"
  /\ UNCHANGED <<calls, last, lastEventCallbacks, afterDisconnect>>
  /\ UNCHANGED signVars

\* The user picks Unisat in the modal.  The caller issues connects one after
\* the other (spec.md 5): no connect is in flight.
UserConnectUnisat ==
  /\ loadPc # "mount"
  /\ InFlight = {}
  /\ Len(calls) < MaxCalls
  /\ Commit(UnisatBegin(World, Len(calls) + 1))
  /\ calls' = Append(calls, NewCall(UNISAT, FALSE, "user"))
  /\ afterDisconnect' = "no"
  /\ UNCHANGED <<last, loadPc, lastEventCallbacks>>
  /\ UNCHANGED signVars

\* The user picks Xverse in the modal.
UserConnectXverse ==
  /\ loadPc # "mount"
  /\ InFlight = {}
  /\ Len(calls) < MaxCalls
  /\ Commit(XverseBegin(World))
  /\ calls' = Append(calls, NewCall(XVERSE, FALSE, "user"))
  /\ afterDisconnect' = "no"
  /\ UNCHANGED <<last, loadPc, lastEventCallbacks>>
  /\ UNCHANGED signVars

\* The callbacks of one accountsChanged event: each registered listener calls
\* onConnectUnisatWallet(), which runs to its adapter call.
RECURSIVE RunListeners(_, _, _)
RunListeners(w, n, k) ==
  IF k = 0 THEN w ELSE RunListeners(UnisatBegin(w, n + 1), n + 1, k - 1)

\* The extension emits accountsChanged.
AccountsChanged ==
  LET k == Cardinality(listeners)
  IN  /\ loadPc # "mount"
      /\ Len(calls) + k <= MaxCalls
      /\ Commit(RunListeners(World, Len(calls), k))
      /\ calls' = calls \o [j \in 1..k |-> NewCall(UNISAT, FALSE, "listener")]
      /\ lastEventCallbacks' = k
      /\ afterDisconnect' = IF afterDisconnect = "no" THEN "no" ELSE "event"
      /\ UNCHANGED <<last, loadPc>>
      /\ UNCHANGED signVars

\* getUnisatAddresses of invocation i settles and the invocation runs to its
\* return.
UnisatSettle(i) ==
  /\ i \in InFlight
  /\ calls[i].kind = UNISAT
  /\ \E unisat \in UnisatOutcomes, addThrows \in BOOLEAN :
       /\ addThrows => (unisat.kind = "list" /\ Len(unisat.list) >= 1)
       /\ LET r == UnisatResume(World, i, unisat, addThrows)
          IN  /\ Commit(r.w)
              /\ last' = [id |-> i, kind |-> UNISAT, readOnly |-> calls[i].readOnly,
                          origin |-> calls[i].origin, outcome |-> unisat,
                          addThrows |-> addThrows, result |-> r.result,
                          wrote |-> r.wrote, opened |-> r.w.opened,
                          hadIdentity |-> ~IsEmpty(store),
                          hadListener |-> listeners # {},
                          prior |-> store.wallet]
  /\ calls' = [calls EXCEPT ![i] = Finished(calls[i])]
  /\ UNCHANGED <<loadPc, lastEventCallbacks, afterDisconnect>>
  /\ UNCHANGED signVars

\* getXverseAddresses of invocation i settles and the invocation runs to its
\* return.
XverseSettle(i) ==
  /\ i \in InFlight
  /\ calls[i].kind = XVERSE
  /\ \E xverse \in XverseOutcomes :
       LET r == XverseResume(World, xverse)
       IN  /\ Commit(r.w)
           /\ last' = [id |-> i, kind |-> XVERSE, readOnly |-> calls[i].readOnly,
                       origin |-> calls[i].origin, outcome |-> xverse,
                       addThrows |-> FALSE, result |-> r.result,
                       wrote |-> r.wrote, opened |-> r.w.opened,
                       hadIdentity |-> ~IsEmpty(store),
                       hadListener |-> listeners # {},
                       prior |-> store.wallet]
  /\ calls' = [calls EXCEPT ![i] = Finished(calls[i])]
  /\ UNCHANGED <<loadPc, lastEventCallbacks, afterDisconnect>>
  /\ UNCHANGED signVars

\* The consumer calls disconnectWallet().
UserDisconnect ==
  /\ loadPc # "mount"
  /\ Commit(disconnectWallet(World))
  /\ afterDisconnect' =
       IF /\ store.wallet = UNISAT /\ listeners # {}
          /\ loadPc # "waiting"
          /\ \A i \in InFlight : calls[i].origin = "listener"
       THEN "disconnected"
       ELSE afterDisconnect
  /\ calls' = [i \in 1..Len(calls) |->
                 IF calls[i].pc = "await"
                 THEN [calls[i] EXCEPT !.disconnected = TRUE]
                 ELSE calls[i]]
  /\ UNCHANGED <<last, loadPc, lastEventCallbacks>>
  /\ UNCHANGED signVars

(***************************************************************************)
(* useSignMessage                                                          *)
(***************************************************************************)

\* useOrdContext's format and publicKey are set (truthy).
HasFormat(s) == s.ordinalFormat # "" /\ s.paymentFormat # ""
HasPublicKey(s) == s.ordinalPublicKey # "" /\ s.paymentPublicKey # ""

ErrNoWallet == [name |-> "Error", message |-> "No wallet is connected"]
ErrSignFailed == [name |-> "Error", message |-> "signing failed"]
SignErrors == {ErrCancelled, ErrSignFailed}

SignAddresses == {"b1", "t1"}
SignMessages == {"hello"}

\* signMessage's result for an address and a message.
Signature(address, message) == "sig(" \o address \o "," \o message \o ")"

\* new Error(e): the message is String(e), the error's name and message.
WrapError(e) == [name |-> "Error", message |-> e.name \o ": " \o e.message]

\* A catch block that answers a failure by disconnecting the session.
SignCatchDisconnects(sw, e) ==
  [sw |-> [sw EXCEPT !.error = e.message, !.isLoading = FALSE,
                     !.store = EmptyIdentity],
   pc |-> "threw", value |-> WrapError(e).message, called |-> FALSE]

\* signMsg's catch block, lines 31-35, on sw = [isLoading, error, store]:
\* the hook's state and the identity it reads.
SignCatch(sw, e) ==
  [sw |-> [sw EXCEPT !.error = e.message, !.isLoading = FALSE],
   pc |-> "threw", value |-> WrapError(e).message, called |-> FALSE]

\* Lines 15-22 without the check of format and publicKey.
SignMsgBeginUnchecked(sw, s) ==
  [sw |-> [sw EXCEPT !.isLoading = TRUE, !.error = ""],
   pc |-> "await", value |-> "", called |-> TRUE]

\* signMsg, lines 15-22: from the call to the signMessage call, or to the
\* throw of line 19 and its catch.
SignMsgBegin(sw, s) ==
  LET sw1 == [sw EXCEPT !.isLoading = TRUE, !.error = ""]
  IN  IF ~HasFormat(s) \/ ~HasPublicKey(s)
      THEN SignCatch(sw1, ErrNoWallet)
      ELSE [sw |-> sw1, pc |-> "await", value |-> "", called |-> TRUE]

\* Lines 22-35 without the setIsLoading(false) of line 29.
SignMsgResumeStaysBusy(sw, ok, signedMessage, e) ==
  IF ok
  THEN [sw |-> sw, pc |-> "returned", value |-> signedMessage, called |-> TRUE]
  ELSE [SignCatch(sw, e) EXCEPT !.called = TRUE]

\* signMsg, lines 22-35: from signMessage's completion to the return or throw.
SignMsgResume(sw, ok, signedMessage, e) ==
  IF ok
  THEN [sw |-> [sw EXCEPT !.isLoading = FALSE],
        pc |-> "returned", value |-> signedMessage, called |-> TRUE]
  ELSE [SignCatch(sw, e) EXCEPT !.called = TRUE]

SignWorld == [isLoading |-> isLoading, error |-> error, store |-> store]

SignCommit(sw) ==
  /\ isLoading' = sw.isLoading
  /\ error' = sw.error
  /\ store' = sw.store

SignsInFlight == {i \in 1..Len(signs) : signs[i].pc = "await"}

\* A consumer calls signMsg(address, message).
SignBegin ==
  /\ loadPc # "mount"
  /\ Len(signs) < MaxSigns
  /\ \E address \in SignAddresses, message \in SignMessages :
       LET r == SignMsgBegin(SignWorld, store)
           rec == [address |-> address, message |-> message,
                   wallet |-> store.wallet, hadIdentity |-> ~IsEmpty(store),
                   called |-> r.called, pc |-> r.pc, value |-> r.value]
       IN  /\ SignCommit(r.sw)
           /\ signs' = Append(signs, rec)
           /\ signLast' = IF r.pc = "await" THEN signLast
                          ELSE [id |-> Len(signs) + 1, status |-> r.pc,
                                value |-> r.value,
                                hadIdentity |-> ~IsEmpty(store),
                                extensionCall |-> r.called,
                                cause |-> ErrNoWallet]
  /\ UNCHANGED <<errorMessage, listeners, calls, last, loadPc,
                 lastEventCallbacks, afterDisconnect>>

\* signMessage of invocation i settles and signMsg runs to its end.
SignSettle(i) ==
  /\ i \in SignsInFlight
  /\ \E ok \in BOOLEAN, e \in SignErrors :
       /\ ok => e = ErrSignFailed
       /\ LET r == SignMsgResume(SignWorld, ok,
                                 Signature(signs[i].address, signs[i].message), e)
          IN  /\ SignCommit(r.sw)
              /\ signs' = [signs EXCEPT ![i].pc = r.pc, ![i].value = r.value]
              /\ signLast' = [id |-> i, status |-> r.pc, value |-> r.value,
                              hadIdentity |-> signs[i].hadIdentity,
                              extensionCall |-> TRUE,
                              cause |-> IF ok THEN NoError ELSE e]
  /\ UNCHANGED <<errorMessage, listeners, calls, last, loadPc,
                 lastEventCallbacks, afterDisconnect>>

Next ==
  \/ Mount
  \/ LoadReady
  \/ LoadNotReady
  \/ UserConnectUnisat
  \/ UserConnectXverse
  \/ AccountsChanged
  \/ \E i \in 1..MaxCalls : UnisatSettle(i)
  \/ \E i \in 1..MaxCalls : XverseSettle(i)
  \/ UserDisconnect

Spec == Init /\ [][Next]_vars

\* The signing service over an identity read from storage: the page loads,
\* the consumer signs and may disconnect.
SignNext ==
  \/ Mount
  \/ LoadNotReady
  \/ UserDisconnect
  \/ SignBegin
  \/ \E i \in 1..MaxSigns : SignSettle(i)

SignSpec == Init /\ [][SignNext]_vars

(***************************************************************************)
(* Properties                                                              *)
(***************************************************************************)

\* A connect invocation returns in this step.
Returns == last'.id # last.id

\* The identity has all six fields set, or none.
AllPopulated(s) ==
  /\ s.paymentAddress # "" /\ s.ordinalAddress # ""
  /\ s.paymentPublicKey # "" /\ s.ordinalPublicKey # ""
  /\ s.paymentFormat # "" /\ s.ordinalFormat # ""

AllEmpty(s) ==
  /\ s.paymentAddress = "" /\ s.ordinalAddress = ""
  /\ s.paymentPublicKey = "" /\ s.ordinalPublicKey = ""
  /\ s.paymentFormat = "" /\ s.ordinalFormat = ""

\* A response with no entry of the format.
Lacks(list, format) == \A i \in 1..Len(list) : list[i].format # format

\* The connect whose record is l met one of the failures: the adapter threw,
\* the response was empty, a required format was missing, or the listener
\* registration threw.
Failed(l) ==
  \/ l.outcome.kind \in {"throw", "null"}
  \/ Len(l.outcome.list) < 1
  \/ l.kind = XVERSE
     /\ (Lacks(l.outcome.list, "p2sh-p2wpkh") \/ Lacks(l.outcome.list, "taproot"))
  \/ l.addThrows

\* C1: every connect invocation (Unisat or Xverse) that fails, whichever step
\* failed, returns false, and the Identity Store is fully empty (no wallet
\* kind, no address, public key or format) when it returns.
C1_FailedConnectEmptiesStore ==
  [][Returns =>
       /\ Failed(last') => ~last'.result
       /\ ~last'.result => (Failed(last') /\ store' = EmptyIdentity)]_vars

\* A connect failed at the listener registration, after it had written the
\* identity over an earlier one, and the store is empty.
C1_Witness ==
  /\ last.id # 0 /\ last.addThrows /\ last.wrote /\ last.hadIdentity
  /\ ~last.result /\ IsEmpty(store)

\* C2: after any sequence of sequential Unisat connects at most one
\* account-change listener is registered, and one accountsChanged event runs
\* one listener callback.
C2_AtMostOneListener ==
  /\ Cardinality(listeners) <= 1
  /\ lastEventCallbacks <= 1

\* C3: a connect started by an account-change listener callback never has its
\* adapter call in flight together with another connect's adapter call for the
\* same wallet kind.
C3_NoOverlappingAdapterCalls ==
  \A i \in InFlight :
    calls[i].origin = "listener" =>
      \A j \in InFlight : (j # i) => calls[j].kind # calls[i].kind

\* C4: after an explicit disconnect of a connected Unisat session no listener
\* is registered, an accountsChanged event runs no callback, and the store
\* stays empty until the user starts a new connect.
C4_DisconnectSilencesListener ==
  afterDisconnect # "no" =>
    /\ listeners = {}
    /\ IsEmpty(store)
    /\ afterDisconnect = "event" => lastEventCallbacks = 0

\* C5: between operations the six identity fields are all populated or all
\* empty.
C5_AllOrNothing == AllPopulated(store) \/ AllEmpty(store)

\* A listener-triggered reconnect succeeded over an earlier identity.
C5_Witness ==
  /\ last.id # 0 /\ last.origin = "listener" /\ last.result /\ last.hadIdentity
  /\ AllPopulated(store)

\* C6: when the readiness wait of reconnect-on-load reports not ready, the
\* flow returns with the store empty, starts no adapter call, sets no error
\* message and no connect invocation returns (none ran).
C6_NotReadyDisconnectsSilently ==
  [][(loadPc = "waiting" /\ loadPc' = "notready") =>
       /\ store' = EmptyIdentity
       /\ calls' = calls
       /\ errorMessage' = errorMessage
       /\ last' = last]_vars

\* Reconnect-on-load ended on the timeout: disconnected, no call, no message.
C6_Witness ==
  /\ loadPc = "notready" /\ IsEmpty(store) /\ calls = << >> /\ errorMessage = ""

\* C7: signMsg called with no connected identity throws the no-wallet error
\* and makes no signMessage call.
C7_SignWithoutIdentityFails ==
  \A i \in 1..Len(signs) :
    ~signs[i].hadIdentity =>
      /\ signs[i].pc = "threw"
      /\ signs[i].value = "Error: No wallet is connected"
      /\ ~signs[i].called

\* A signMsg call was made while the store was empty, and threw.
C7_Witness ==
  \E i \in 1..Len(signs) :
    /\ ~signs[i].hadIdentity /\ signs[i].pc = "threw"
    /\ error = "No wallet is connected" /\ ~isLoading

\* C8: disconnectWallet is idempotent: a second call changes nothing, a call
\* with no session changes nothing, and the empty-response connect path (two
\* calls) ends as the one-call failure path does.
C8_DisconnectIdempotent ==
  LET once == disconnectWallet(World)
      twice == disconnectWallet(once)
  IN  /\ once.store = EmptyIdentity
      /\ twice = once
      /\ (IsEmpty(store) /\ listeners = {}) => once = World
      /\ UnisatResume(World, 1, Returned(<< >>), FALSE).w
           = onError(World, UNISAT, ErrUnisatEmpty)
      /\ XverseResume(World, Returned(<< >>)).w
           = onError(World, XVERSE, ErrXverseEmpty)

\* An empty response was handled over a stored identity; the store is empty.
C8_Witness ==
  /\ last.id # 0 /\ last.outcome = Returned(<< >>) /\ last.hadIdentity
  /\ ~last.result /\ IsEmpty(store)

\* C9: an Xverse response that lacks a p2sh-p2wpkh entry or a taproot entry
\* makes connect return false without writing an identity field, and leaves
\* the store empty.
C9_IncompleteXverseFails ==
  [][(/\ Returns
      /\ last'.kind = XVERSE
      /\ last'.outcome.kind = "list"
      /\ Len(last'.outcome.list) >= 1
      /\ \/ Lacks(last'.outcome.list, "p2sh-p2wpkh")
         \/ Lacks(last'.outcome.list, "taproot"))
     => (~last'.result /\ ~last'.wrote /\ store' = EmptyIdentity)]_vars

\* A response with the payment entry only arrived over a stored identity.
C9_Witness ==
  /\ last.kind = XVERSE /\ last.outcome = Returned(<<P1>>) /\ last.hadIdentity
  /\ ~last.result /\ IsEmpty(store)

\* C10: a non-empty Unisat response makes a successful connect, which stores
\* the first returned entry in the payment and in the ordinal role, with
\* wallet kind Unisat.
C10_UnisatFirstEntryInBothRoles ==
  [][(Returns /\ last'.kind = UNISAT) =>
       /\ (last'.outcome.kind = "list" /\ Len(last'.outcome.list) >= 1
           /\ ~last'.addThrows) => last'.result
       /\ last'.result =>
            store' = IdentityOf(UNISAT, last'.outcome.list[1],
                                last'.outcome.list[1])]_vars

\* A Unisat connect succeeded on a response of two entries.
C10_Witness ==
  /\ last.kind = UNISAT /\ last.result /\ last.outcome = Returned(<<U2, U1>>)
  /\ store.paymentAddress = "b2" /\ store.ordinalAddress = "b2"

\* A signMsg call ends with a throw in this step.
SignFails == signLast'.id # signLast.id /\ signLast'.status = "threw"

\* C11: a failing sign call leaves the Identity Store unchanged, does not
\* disconnect the session, and throws the failure to the caller (the error
\* wrapped by new Error, with its message recorded in the hook's error state).
C11_SignFailureKeepsIdentity ==
  [][SignFails =>
       /\ store' = store
       /\ listeners' = listeners
       /\ signs'[signLast'.id].pc = "threw"
       /\ signLast'.value
            = signLast'.cause.name \o ": " \o signLast'.cause.message
       /\ error' = signLast'.cause.message]_vars

\* The extension rejected a signing request of a connected session, and the
\* identity is still stored.
C11_Witness ==
  /\ signLast.status = "threw" /\ signLast.extensionCall
  /\ signLast.cause = ErrCancelled
  /\ ~IsEmpty(store) /\ store.wallet # "none"

\* C12: reconnect-on-load starts only when the persisted state holds the
\* Unisat wallet kind with address, public key and format set; on that path
\* the adapter call is made only in the step in which the readiness wait
\* reports ready, and with readOnly = true.
C12_ReconnectOnLoadGuarded ==
  [][/\ (loadPc = "mount" /\ loadPc' = "waiting") =>
          (store.wallet = UNISAT /\ AllPopulated(store))
     /\ \A i \in 1..Len(calls') :
          calls'[i].origin = "load" =>
            /\ calls'[i].readOnly
            /\ loadPc' = "ready"
            /\ i > Len(calls) => loadPc = "waiting"]_vars

\* The readiness wait reported ready and the read-only adapter call is in
\* flight.
C12_Witness ==
  /\ loadPc = "ready"
  /\ \E i \in InFlight : calls[i].origin = "load" /\ calls[i].readOnly

\* C13: a reconnect-on-load whose read-only adapter call fails clears the
\* store and produces no user-facing surface: no error message and no install
\* page.
C13_ReconnectOnLoadFailsSilently ==
  [][(Returns /\ last'.origin = "load" /\ ~last'.result) =>
       /\ store' = EmptyIdentity
       /\ errorMessage' = ""
       /\ last'.opened = {}]_vars

FirstOf(list, format) ==
  list[CHOOSE i \in 1..Len(list) :
         /\ list[i].format = format
         /\ \A j \in 1..(i - 1) : list[j].format # format]

\* The identity that the response of the connect recorded in l stands for.
FromResponse(l) ==
  IF l.kind = UNISAT
  THEN IdentityOf(UNISAT, l.outcome.list[1], l.outcome.list[1])
  ELSE IdentityOf(XVERSE, FirstOf(l.outcome.list, "p2sh-p2wpkh"),
                  FirstOf(l.outcome.list, "taproot"))

\* C15: a stored identity is, in all six fields and the wallet kind, the one
\* of a single adapter response: that of the connect which returned last, and
\* returned true (or, before any connect returned, the persisted identity).
C15_IdentityFromOneResponse ==
  ~IsEmpty(store) =>
    IF last.id = 0
    THEN store \in PersistedStores
    ELSE last.result /\ store = FromResponse(last)

\* An Xverse connect succeeded over a stored Unisat identity.
C15_Witness ==
  /\ last.result /\ last.kind = XVERSE /\ last.prior = UNISAT
  /\ store = IdentityOf(XVERSE, P2, T1)

\* The message of the failure that the connect recorded in l met.
FailureMessage(l) ==
  IF l.outcome.kind = "throw" THEN l.outcome.err.message
  ELSE IF l.outcome.kind = "null" \/ Len(l.outcome.list) < 1
  THEN (IF l.kind = UNISAT THEN ErrUnisatEmpty.message ELSE ErrXverseEmpty.message)
  ELSE IF l.kind = XVERSE THEN ErrXverseIncomplete.message
  ELSE ErrAddListener.message

\* C16: when a connect invocation returns true the error message is empty,
\* and when it returns false the error message is that of its own failure.
C16_ErrorMessageOfThisConnect ==
  [][Returns =>
       /\ last'.result => errorMessage' = ""
       /\ ~last'.result => errorMessage' = FailureMessage(last')]_vars

\* C17: isLoading is true exactly when at least one sign request is
\* outstanding.
C17_BusyIffOutstanding == isLoading <=> (SignsInFlight # {})

\* C17, amended: isLoading is false whenever no sign request is outstanding;
\* it becomes true when a signMsg call reaches its signMessage call and false
\* when any signMsg call returns or throws, so with overlapping calls it is
\* false from the first one that ends, while the other is still outstanding.
C17_BusyUntilNextEnd ==
  [][/\ SignsInFlight' = {} => ~isLoading'
     /\ (Len(signs') > Len(signs) /\ signs'[Len(signs')].pc = "await")
          => isLoading'
     /\ (\E i \in SignsInFlight : signs'[i].pc # "await") => ~isLoading'
     /\ (Len(signs') > Len(signs) /\ signs'[Len(signs')].pc = "threw")
          => ~isLoading'
     /\ signs' = signs => isLoading' = isLoading]_vars

\* Of two overlapping sign requests one has ended and the other is still
\* outstanding: the flag is false.
C17_Witness ==
  /\ SignsInFlight # {}
  /\ \E i \in 1..Len(signs) : signs[i].called /\ signs[i].pc # "await"
  /\ ~isLoading

\* C18: when disconnectWallet() was called while a connect's adapter call
\* was in flight, the completion of that call does not populate the emptied
\* store and registers no listener.
C18_DisconnectCancelsPendingConnect ==
  [][(Returns /\ calls[last'.id].disconnected) =>
       /\ IsEmpty(store) => IsEmpty(store')
       /\ last'.id \notin listeners']_vars

\* C19: a connect started by a Unisat accountsChanged event while the stored
\* wallet kind is Xverse leaves an Xverse identity as it is.
C19_UnisatEventKeepsXverseIdentity ==
  [][(/\ Returns
      /\ last'.origin = "listener"
      /\ calls[last'.id].walletAtStart = XVERSE
      /\ store.wallet = XVERSE)
     => store' = store]_vars

====
